---- MODULE Spec2Model ----
(***************************************************************************)
(* A model of the Sudoku core (SudokuUtils), of the solver-mode component  *)
(* that drives naked-single propagation on top of it, of the challenge-    *)
(* mode component with its move history, and of the guarded sync           *)
(* operations of CloudStorageManager.                                      *)
(*                                                                         *)
(* A grid is a function 0..8 -> (0..8 -> 0..9); 0 stands for the empty     *)
(* cell (null in the source).                                              *)
(***************************************************************************)
EXTENDS Integers, Sequences, FiniteSets, TLC

VARIABLES
  userGrid,         \* SolverMode: the grid state
  autoSolvedCells,  \* SolverMode: the set of cells marked as deduced
  effectPending,    \* SolverMode: the propagation effect is scheduled to run
  authored,         \* history: cells whose current value the user supplied
  lastRun,          \* history: input of the updateAutoSolvedCells run that
                    \* produced this state, NoRun after any other step
  grid,             \* caller of SudokuUtils: the grid it passes
  call,             \* caller of SudokuUtils: its last call and the result
  gen,              \* caller of generatePuzzle: position and values
  search,           \* a running SudokuUtils.solve: gridCopy and the stack of
                    \* backtrack() invocations
  currentGame,      \* ChallengeMode: the game state, NoGame before the mount
  currentMoveIndex, \* ChallengeMode: index of the last applied move
  gameStarted,      \* ChallengeMode: a first value has been entered
  isPaused,         \* ChallengeMode: the game is paused (grid input is off)
  savedGame,        \* StorageUtils: the stored record of the game
  syncInProgress,   \* CloudStorageManager: the guard flag
  storage,          \* CloudStorageManager: the credentials, NoAuth if absent
  lastUploadRecent, \* CloudStorageManager: now - lastUploadTime < UPLOAD_COOLDOWN
  syncCalls         \* the calls of guarded sync operations, one per caller

challengeVars == <<currentGame, currentMoveIndex, gameStarted, isPaused, savedGame>>

cloudVars == <<syncInProgress, storage, lastUploadRecent, syncCalls>>

vars == <<userGrid, autoSolvedCells, effectPending, authored, lastRun,
          grid, call, gen, search, challengeVars, cloudVars>>

----------------------------------------------------------------------------
(* Grid model *)

Null == 0

Idx == 0..8

Nums == 1..9

Cells == Idx \X Idx

createEmptyGrid == [r \in Idx |-> [c \in Idx |-> Null]]

\* A copy that exchanges rows and columns.
copyGridTransposed(g) == [r \in Idx |-> [c \in Idx |-> g[c][r]]]

copyGrid(g) == [r \in Idx |-> [c \in Idx |-> g[r][c]]]

\* A copy that keeps the row arrays of its argument (grid.map(row => row)).
sharedRowsShallow == Idx

\* The rows of copyGrid(g) that are the same array object as the row of g:
\* none, map builds a new outer array and [...row] a new array for each row.
\* A write to a cell of a shared row is a write to both grids.
sharedRows == {}

SetCell(g, row, col, v) == [g EXCEPT ![row][col] = v]

\* F applied to the value of x: x is evaluated once, as the local variable
\* that receives it in the source is assigned once.
WithValue(x, F(_)) == CHOOSE res \in {F(v) : v \in {x}} : TRUE

----------------------------------------------------------------------------
(* Constraint checker *)

\* isValidMove with the "other than the cell itself" exclusions dropped.
isValidMoveNoSelfExclusion(g, row, col, num) ==
  LET boxRow == (row \div 3) * 3
      boxCol == (col \div 3) * 3
  IN  /\ \A c \in Idx : g[row][c] # num
      /\ \A r \in Idx : g[r][col] # num
      /\ \A r \in boxRow..(boxRow + 2) : \A c \in boxCol..(boxCol + 2) :
            g[r][c] # num

\* isValidMove that forgets the 3x3 box check.
isValidMoveNoBox(g, row, col, num) ==
  /\ \A c \in Idx : ~(c # col /\ g[row][c] = num)
  /\ \A r \in Idx : ~(r # row /\ g[r][col] = num)

isValidMove(g, row, col, num) ==
  LET boxRow == (row \div 3) * 3
      boxCol == (col \div 3) * 3
  IN  /\ \A c \in Idx : ~(c # col /\ g[row][c] = num)
      /\ \A r \in Idx : ~(r # row /\ g[r][col] = num)
      /\ \A r \in boxRow..(boxRow + 2) : \A c \in boxCol..(boxCol + 2) :
            ~((r # row \/ c # col) /\ g[r][c] = num)

\* The cells of row `row`, of column `col` and of box (boxRow, boxCol), in
\* the order the loops of isValid and findConflicts visit them.
RowCells(row) == [k \in 1..9 |-> <<row, k - 1>>]

ColCells(col) == [k \in 1..9 |-> <<k - 1, col>>]

BoxCells(boxRow, boxCol) ==
  [k \in 1..9 |-> <<boxRow * 3 + ((k - 1) \div 3), boxCol * 3 + ((k - 1) % 3)>>]

RECURSIVE seenScan(_, _, _, _)

\* seenScan without the test "val !== null": an empty cell counts as a value.
seenScanCountsNull(g, cells, k, seen) ==
  IF k > Len(cells) THEN FALSE
  ELSE LET val == g[cells[k][1]][cells[k][2]]
       IN  IF val \in seen THEN TRUE
           ELSE seenScan(g, cells, k + 1, seen \cup {val})

\* One scope of isValid: walk the cells from position k on with the Set
\* `seen`; TRUE iff some non-null value is met that is already in `seen`.
seenScan(g, cells, k, seen) ==
  IF k > Len(cells) THEN FALSE
  ELSE LET val == g[cells[k][1]][cells[k][2]]
       IN  IF val # Null
           THEN IF val \in seen THEN TRUE
                ELSE seenScan(g, cells, k + 1, seen \cup {val})
           ELSE seenScan(g, cells, k + 1, seen)

isValid(g) ==
  /\ \A row \in Idx : ~seenScan(g, RowCells(row), 1, {})
  /\ \A col \in Idx : ~seenScan(g, ColCells(col), 1, {})
  /\ \A boxRow \in 0..2 : \A boxCol \in 0..2 :
        ~seenScan(g, BoxCells(boxRow, boxCol), 1, {})

\* isComplete that returns true once no cell is empty.
isCompleteFilledOnly(g) ==
  \A row \in Idx : \A col \in Idx : g[row][col] # Null

isComplete(g) ==
  /\ \A row \in Idx : \A col \in Idx : g[row][col] # Null
  /\ isValid(g)

----------------------------------------------------------------------------
(* Conflict finder *)

RECURSIVE seenKeys(_, _, _, _)

\* The keys of the Map `seen` of one scope in insertion order: the non-null
\* values met from position k on that are not a key yet.
seenKeys(g, cells, k, keys) ==
  IF k > Len(cells) THEN keys
  ELSE LET val == g[cells[k][1]][cells[k][2]]
       IN  IF val # Null /\ \A i \in 1..Len(keys) : keys[i] # val
           THEN seenKeys(g, cells, k + 1, Append(keys, val))
           ELSE seenKeys(g, cells, k + 1, keys)

\* seenCells that leaves out the first cell holding the value.
seenCellsAfterFirst(g, cells, val) ==
  Tail(SelectSeq(cells, LAMBDA p : g[p[1]][p[2]] = val))

\* The array that `seen` holds for the key val once the scope is scanned,
\* mapped to coordinates: the cells of the scope that hold val, in scan order.
seenCells(g, cells, val) ==
  SelectSeq(cells, LAMBDA p : g[p[1]][p[2]] = val)

RECURSIVE seenForEach(_, _, _, _)

\* seen.forEach of one scope from the i-th key on: the entries it pushes.
seenForEach(g, scope, keys, i) ==
  IF i > Len(keys) THEN <<>>
  ELSE LET held == seenCells(g, scope.cells, keys[i])
       IN  (IF Len(held) > 1
            THEN << [type |-> scope.type, index |-> scope.index, cells |-> held] >>
            ELSE <<>>)
           \o seenForEach(g, scope, keys, i + 1)

\* The scopes in the order of the three loops of findConflicts.
RowScopes == [k \in 1..9 |-> [type |-> "row", index |-> k - 1, cells |-> RowCells(k - 1)]]

ColumnScopes ==
  [k \in 1..9 |-> [type |-> "column", index |-> k - 1, cells |-> ColCells(k - 1)]]

BoxScopes ==
  [k \in 1..9 |-> [type |-> "box", index |-> ((k - 1) \div 3) * 3 + ((k - 1) % 3),
                   cells |-> BoxCells((k - 1) \div 3, (k - 1) % 3)]]

RECURSIVE conflictsOf(_, _, _)

\* The entries pushed for the scopes i.. of one loop.
conflictsOf(g, scopes, i) ==
  IF i > Len(scopes) THEN <<>>
  ELSE seenForEach(g, scopes[i], seenKeys(g, scopes[i].cells, 1, <<>>), 1)
       \o conflictsOf(g, scopes, i + 1)

findConflicts(g) ==
  conflictsOf(g, RowScopes, 1) \o conflictsOf(g, ColumnScopes, 1) \o conflictsOf(g, BoxScopes, 1)

----------------------------------------------------------------------------
(* Backtracking solver *)

RowHasEmpty(g, row) == \E col \in Idx : g[row][col] = Null

\* The first empty cell in row-major order, as <<row, col>>; <<>> stands for
\* the null that findEmpty returns when no cell is empty.
findEmpty(g) ==
  IF \A row \in Idx : ~RowHasEmpty(g, row) THEN <<>>
  ELSE LET row == CHOOSE r \in Idx :
                    RowHasEmpty(g, r) /\ \A r2 \in 0..(r - 1) : ~RowHasEmpty(g, r2)
           col == CHOOSE c \in Idx :
                    g[row][c] = Null /\ \A c2 \in 0..(c - 1) : g[row][c2] # Null
       IN  <<row, col>>

RECURSIVE backtrack(_)

\* The boolean that backtrack() returns when gridCopy holds g on entry:
\* true when no cell is empty, else true iff some num in 1..9 passes
\* isValidMove at the first empty cell and the recursive call on the grid
\* with num placed returns true.
backtrack(g) ==
  LET empty == findEmpty(g)
  IN  IF empty = <<>> THEN TRUE
      ELSE \E num \in Nums :
             /\ isValidMove(g, empty[1], empty[2], num)
             /\ backtrack(SetCell(g, empty[1], empty[2], num))

RECURSIVE gridAfterBacktrack(_)

\* The content of gridCopy when backtrack() has returned true from g: at
\* each empty cell the loop stops at the first num (ascending) whose
\* recursive call succeeds; the nums tried before it were reset to null.
gridAfterBacktrack(g) ==
  LET empty == findEmpty(g)
      ok(num) == /\ isValidMove(g, empty[1], empty[2], num)
                 /\ backtrack(SetCell(g, empty[1], empty[2], num))
  IN  IF empty = <<>> THEN g
      ELSE LET first == CHOOSE num \in Nums :
                          ok(num) /\ \A m \in 1..(num - 1) : ~ok(m)
           IN  gridAfterBacktrack(SetCell(g, empty[1], empty[2], first))

\* What solve returns in place of a grid when backtrack() returns false.
NoGrid == <<>>

solve(g) ==
  LET gridCopy == copyGrid(g)
  IN  IF backtrack(gridCopy) THEN gridAfterBacktrack(gridCopy) ELSE NoGrid

(* The same function, one step of the recursion at a time.  search.stack    *)
(* holds one frame per active invocation of backtrack(), innermost last,    *)
(* with the cell of the invocation and its loop variable num; search.pc is  *)
(* "enter" when an invocation starts, "loop" at the head of the for-loop of *)
(* the innermost invocation, "returned" when solve has returned; gridCopy   *)
(* is then kept next to the result.                                         *)

NoSearch == [pc |-> "idle"]

\* solve(g), lines 162 and 188: copy the grid and call backtrack().
StartSearch(g) ==
  [pc |-> "enter", input |-> g, gridCopy |-> copyGrid(g), shared |-> sharedRows,
   stack |-> <<>>]

\* backtrack(), lines 174-177.  With no empty cell the invocation returns
\* true, and so does every invocation below it (line 181).
BacktrackEnter ==
  /\ search.pc = "enter"
  /\ LET empty == findEmpty(search.gridCopy)
     IN  IF empty = <<>>
         THEN search' = [pc |-> "returned", input |-> search.input,
                         result |-> search.gridCopy, gridCopy |-> search.gridCopy,
                         shared |-> search.shared]
         ELSE search' = [search EXCEPT
                           !.pc = "loop",
                           !.stack = Append(@, [row |-> empty[1], col |-> empty[2], num |-> 1])]

\* BacktrackTry whose for-loop runs from 9 down to 1: iteration num tries
\* the value 10 - num.
BacktrackTryDescending ==
  /\ search.pc = "loop"
  /\ LET top == search.stack[Len(search.stack)]
     IN  /\ top.num <= 9
         /\ IF isValidMove(search.gridCopy, top.row, top.col, 10 - top.num)
            THEN search' = [search EXCEPT
                              !.pc = "enter",
                              !.gridCopy = SetCell(@, top.row, top.col, 10 - top.num)]
            ELSE search' = [search EXCEPT !.stack[Len(search.stack)].num = @ + 1]

\* One iteration of the for-loop, lines 178-181, up to the recursive call.
BacktrackTry ==
  /\ search.pc = "loop"
  /\ LET top == search.stack[Len(search.stack)]
     IN  /\ top.num <= 9
         /\ IF isValidMove(search.gridCopy, top.row, top.col, top.num)
            THEN search' = [search EXCEPT
                              !.pc = "enter",
                              !.gridCopy = SetCell(@, top.row, top.col, top.num)]
            ELSE search' = [search EXCEPT !.stack[Len(search.stack)].num = @ + 1]

\* BacktrackFail in which the caller does not reset its cell (line 182 left
\* out).
BacktrackFailNoReset ==
  /\ search.pc = "loop"
  /\ search.stack[Len(search.stack)].num > 9
  /\ LET rest == SubSeq(search.stack, 1, Len(search.stack) - 1)
     IN  IF rest = <<>>
         THEN search' = [pc |-> "returned", input |-> search.input, result |-> NoGrid,
                         gridCopy |-> search.gridCopy, shared |-> search.shared]
         ELSE search' = [search EXCEPT !.stack = [rest EXCEPT ![Len(rest)].num = @ + 1]]

\* BacktrackFail in which the caller starts its for-loop again at num = 1
\* after the reset.
BacktrackFailRestartsLoop ==
  /\ search.pc = "loop"
  /\ search.stack[Len(search.stack)].num > 9
  /\ LET rest == SubSeq(search.stack, 1, Len(search.stack) - 1)
     IN  IF rest = <<>>
         THEN search' = [pc |-> "returned", input |-> search.input, result |-> NoGrid,
                         gridCopy |-> search.gridCopy, shared |-> search.shared]
         ELSE LET caller == rest[Len(rest)]
              IN  search' = [search EXCEPT
                               !.gridCopy = SetCell(@, caller.row, caller.col, Null),
                               !.stack = [rest EXCEPT ![Len(rest)].num = 1]]

\* The for-loop is exhausted: the invocation returns false (line 185).  Its
\* caller resets its own cell (line 182) and goes on with its next num; with
\* no caller left, solve returns null (line 188).
BacktrackFail ==
  /\ search.pc = "loop"
  /\ search.stack[Len(search.stack)].num > 9
  /\ LET rest == SubSeq(search.stack, 1, Len(search.stack) - 1)
     IN  IF rest = <<>>
         THEN search' = [pc |-> "returned", input |-> search.input, result |-> NoGrid,
                         gridCopy |-> search.gridCopy, shared |-> search.shared]
         ELSE LET caller == rest[Len(rest)]
              IN  search' = [search EXCEPT
                               !.gridCopy = SetCell(@, caller.row, caller.col, Null),
                               !.stack = [rest EXCEPT ![Len(rest)].num = @ + 1]]

SearchStep == BacktrackEnter \/ BacktrackTry \/ BacktrackFail

----------------------------------------------------------------------------
(* Puzzle generator *)

\* Math.floor(Math.random() * (i + 1)): a value of 0..i.  The sequences of
\* draws are indexed by a seed.
RandomIndex(seed, i) ==
  ((seed + 1) * (i + 2) * (i + seed) + seed * 7 + (i * i) \div (seed + 1)) % (i + 1)

Swap(a, i, j) == [a EXCEPT ![i] = a[j], ![j] = a[i]]

RECURSIVE swapsDownTo(_, _, _, _)

\* The iterations i, i-1, ..., stop of the Fisher-Yates loop, over a 1-based
\* sequence holding a[0..length-1] of the source.
swapsDownTo(a, i, stop, seed) ==
  IF i >= stop
  THEN swapsDownTo(Swap(a, i + 1, RandomIndex(seed, i) + 1), i - 1, stop, seed)
  ELSE a

RECURSIVE shuffleFrom(_, _, _)

\* The loop "for (i = length - 1; i > 0; i--)" from i on, nine iterations at
\* a time (Len(a) is read so that a is evaluated before the next nine).
shuffleFrom(a, i, seed) ==
  IF i > 0 /\ i < Len(a)
  THEN LET stop == IF i > 9 THEN i - 8 ELSE 1
       IN  shuffleFrom(swapsDownTo(a, i, stop, seed), stop - 1, seed)
  ELSE a

shuffle(a, seed) == shuffleFrom(a, Len(a) - 1, seed)

Difficulties == {"easy", "medium", "hard", "expert", "master", "extreme"}

getCellsToRemove(difficulty) ==
  CASE difficulty = "easy" -> 35
    [] difficulty = "medium" -> 45
    [] difficulty = "hard" -> 50
    [] difficulty = "expert" -> 55
    [] difficulty = "master" -> 60
    [] difficulty = "extreme" -> 65

\* positions[0..80] of generatePuzzle before the shuffle, row-major.
AllPositions == [k \in 1..81 |-> <<(k - 1) \div 9, (k - 1) % 9>>]

\* The puzzle that shares its rows with the solution (no copyGrid): blanking
\* a puzzle cell blanks the solution cell too.
removeCellsAliased(solution, difficulty, seed) ==
  LET cellsToRemove == getCellsToRemove(difficulty)
      positions == shuffle(AllPositions, seed)
      removed == {positions[i + 1] : i \in {n \in 0..80 : n < cellsToRemove}}
      puzzle == [r \in Idx |-> [c \in Idx |->
                   IF <<r, c>> \in removed THEN Null ELSE solution[r][c]]]
  IN  [puzzle |-> puzzle, solution |-> puzzle]

\* generatePuzzle after generateComplete has returned `solution`: copy,
\* shuffle the 81 positions, blank the first cellsToRemove of them.
removeCells(solution, difficulty, seed) ==
  LET cellsToRemove == getCellsToRemove(difficulty)
      positions == shuffle(AllPositions, seed)
      removed == {positions[i + 1] :
                    i \in {n \in 0..80 : n < cellsToRemove /\ n < Len(positions)}}
      puzzle == [r \in Idx |-> [c \in Idx |->
                   IF <<r, c>> \in removed THEN Null ELSE copyGrid(solution)[r][c]]]
  IN  [puzzle |-> puzzle, solution |-> solution]

----------------------------------------------------------------------------
(* Deduction engine: hints *)

\* The array `possibilities` built for the cell (row, col).
possibilities(g, row, col) ==
  SelectSeq(<<1, 2, 3, 4, 5, 6, 7, 8, 9>>, LAMBDA num : isValidMove(g, row, col, num))

\* What getHint returns for "no hint" (null).
NoHint == <<>>

OnlyReason == "This is the only number that can go in this cell."

RECURSIVE hintScanRow(_, _, _, _)

\* hintScanRow without the early return: a cell with one candidate is
\* handled by the fallback branch like any other.
hintScanRowNoEarlyReturn(g, row, col, st) ==
  IF col > 8 THEN st
  ELSE LET poss == possibilities(g, row, col)
       IN  IF g[row][col] = Null /\ Len(poss) > 0 /\ Len(poss) < st.minPossibilities
           THEN hintScanRow(g, row, col + 1,
                  [bestHint |-> [row |-> row, col |-> col, value |-> poss[1],
                                 reason |-> <<"This cell has only", Len(poss),
                                              "possibilities:", poss>>],
                   minPossibilities |-> Len(poss),
                   returned |-> FALSE])
           ELSE hintScanRow(g, row, col + 1, st)

\* hintScanRow without the test for an empty cell (line 255): filled cells
\* are examined like empty ones.
hintScanRowFilledCells(g, row, col, st) ==
  IF col > 8 \/ st.returned THEN st
  ELSE LET poss == possibilities(g, row, col)
       IN  IF Len(poss) = 1
           THEN [bestHint |-> [row |-> row, col |-> col, value |-> poss[1],
                               reason |-> OnlyReason],
                 minPossibilities |-> st.minPossibilities,
                 returned |-> TRUE]
           ELSE IF Len(poss) > 0 /\ Len(poss) < st.minPossibilities
                THEN hintScanRow(g, row, col + 1,
                       [bestHint |-> [row |-> row, col |-> col, value |-> poss[1],
                                      reason |-> <<"This cell has only", Len(poss),
                                                   "possibilities:", poss>>],
                        minPossibilities |-> Len(poss),
                        returned |-> FALSE])
                ELSE hintScanRow(g, row, col + 1, st)

\* hintScanRow whose fallback replaces bestHint on "<=": on ties the last
\* cell wins.
hintScanRowLastOnTies(g, row, col, st) ==
  IF col > 8 \/ st.returned THEN st
  ELSE LET poss == possibilities(g, row, col)
       IN  IF g[row][col] # Null THEN hintScanRow(g, row, col + 1, st)
           ELSE IF Len(poss) = 1
                THEN [bestHint |-> [row |-> row, col |-> col, value |-> poss[1],
                                    reason |-> OnlyReason],
                      minPossibilities |-> st.minPossibilities,
                      returned |-> TRUE]
                ELSE IF Len(poss) > 0 /\ Len(poss) <= st.minPossibilities
                     THEN hintScanRow(g, row, col + 1,
                            [bestHint |-> [row |-> row, col |-> col, value |-> poss[1],
                                           reason |-> <<"This cell has only", Len(poss),
                                                        "possibilities:", poss>>],
                             minPossibilities |-> Len(poss),
                             returned |-> FALSE])
                     ELSE hintScanRow(g, row, col + 1, st)

\* The inner loop of getHint over the columns col..8 of a row.  st holds
\* bestHint and minPossibilities, and `returned` once the early return has
\* been taken (bestHint is then the returned hint).
hintScanRow(g, row, col, st) ==
  IF col > 8 \/ st.returned THEN st
  ELSE LET poss == possibilities(g, row, col)
       IN  IF g[row][col] # Null THEN hintScanRow(g, row, col + 1, st)
           ELSE IF Len(poss) = 1
                THEN [bestHint |-> [row |-> row, col |-> col, value |-> poss[1],
                                    reason |-> OnlyReason],
                      minPossibilities |-> st.minPossibilities,
                      returned |-> TRUE]
                ELSE IF Len(poss) > 0 /\ Len(poss) < st.minPossibilities
                     THEN hintScanRow(g, row, col + 1,
                            [bestHint |-> [row |-> row, col |-> col, value |-> poss[1],
                                           reason |-> <<"This cell has only", Len(poss),
                                                        "possibilities:", poss>>],
                             minPossibilities |-> Len(poss),
                             returned |-> FALSE])
                     ELSE hintScanRow(g, row, col + 1, st)

RECURSIVE hintScan(_, _, _)

\* The outer loop of getHint over the rows row..8.
hintScan(g, row, st) ==
  IF row > 8 \/ st.returned THEN st
  ELSE hintScan(g, row + 1, hintScanRow(g, row, 0, st))

\* getHint whose fallback only fires below 9 candidates.
getHintStrictFallback(g) ==
  hintScan(g, 0, [bestHint |-> NoHint, minPossibilities |-> 9, returned |-> FALSE]).bestHint

getHint(g) ==
  hintScan(g, 0, [bestHint |-> NoHint, minPossibilities |-> 10, returned |-> FALSE]).bestHint

----------------------------------------------------------------------------
(* Solver mode: naked-single propagation *)

\* The key `${row}-${col}` of a cell; rows and columns are single digits, so
\* the keys are in one-to-one correspondence with the pairs.
Key(row, col) == <<row, col>>

\* The set userCells: the non-empty cells that are not in autoSolvedCells.
userCellsOf(g, autoSolved) ==
  {Key(cell[1], cell[2]) : cell \in
     {p \in Cells : g[p[1]][p[2]] # Null /\ Key(p[1], p[2]) \notin autoSolved}}

\* The array `possibilities` of the propagation loop for the cell (row, col).
cellPossibilities(g, row, col) ==
  SelectSeq(<<1, 2, 3, 4, 5, 6, 7, 8, 9>>, LAMBDA num : isValidMove(g, row, col, num))

RECURSIVE scanRow(_, _, _, _)

\* scanRow that fills a cell with its first candidate whenever it has one.
scanRowFirstCandidate(st, userCells, row, col) ==
  IF col > 8 THEN st
  ELSE LET poss == cellPossibilities(st.workingGrid, row, col)
       IN  IF /\ st.workingGrid[row][col] = Null
              /\ Len(poss) >= 1
              /\ Key(row, col) \notin userCells
           THEN scanRow([workingGrid |-> SetCell(st.workingGrid, row, col, poss[1]),
                         newAutoSolved |-> st.newAutoSolved \cup {Key(row, col)},
                         found |-> TRUE,
                         changed |-> TRUE],
                        userCells, row, col + 1)
           ELSE scanRow(st, userCells, row, col + 1)

\* The inner for-loop of one pass over the columns col..8 of a row.  st holds
\* workingGrid, newAutoSolved, foundNewInThisIteration and changed.
scanRow(state, userCells, row, col) ==
  WithValue(state, LAMBDA st :
    IF col > 8 THEN st
    ELSE LET poss == cellPossibilities(st.workingGrid, row, col)
         IN  IF /\ st.workingGrid[row][col] = Null
                /\ Len(poss) = 1
                /\ Key(row, col) \notin userCells
             THEN scanRow([workingGrid |-> SetCell(st.workingGrid, row, col, poss[1]),
                           newAutoSolved |-> st.newAutoSolved \cup {Key(row, col)},
                           found |-> TRUE,
                           changed |-> TRUE],
                          userCells, row, col + 1)
             ELSE scanRow(st, userCells, row, col + 1))

RECURSIVE scanCells(_, _, _)

\* The outer for-loop of one pass over the rows row..8.
scanCells(state, userCells, row) ==
  WithValue(state, LAMBDA st :
    IF row > 8 THEN st
    ELSE scanCells(scanRow(st, userCells, row, 0), userCells, row + 1))

RECURSIVE propagateLoop(_, _)

\* A single pass in place of the loop.
propagateLoopSinglePass(st, userCells) ==
  scanCells([st EXCEPT !.found = FALSE], userCells, 0)

\* The loop "while (foundNewInThisIteration)": a pass, repeated while the
\* pass filled a cell.
propagateLoop(st, userCells) ==
  WithValue(scanCells([st EXCEPT !.found = FALSE], userCells, 0), LAMBDA pass :
    IF pass.found THEN propagateLoop(pass, userCells) ELSE pass)

\* computeAutoSolved that works on the user's cells only: the cells marked
\* as deduced are emptied first and deduced again.
computeAutoSolvedFromUserCells(g, autoSolved) ==
  LET userCells == userCellsOf(g, autoSolved)
      done == propagateLoop([workingGrid |->
                               [r \in Idx |-> [c \in Idx |->
                                  IF Key(r, c) \in userCells THEN g[r][c] ELSE Null]],
                             newAutoSolved |-> {},
                             found |-> TRUE, changed |-> FALSE], userCells)
  IN  [workingGrid |-> done.workingGrid,
       newAutoSolved |-> done.newAutoSolved,
       changed |-> done.workingGrid # g]

\* The values updateAutoSolvedCells has computed when it reaches its final
\* "if": workingGrid, newAutoSolved (with the previous marks kept) and changed.
computeAutoSolved(g, autoSolved) ==
  WithValue(userCellsOf(g, autoSolved), LAMBDA userCells :
    WithValue(propagateLoop([workingGrid |-> copyGrid(g), newAutoSolved |-> {},
                             found |-> TRUE, changed |-> FALSE], userCells),
              LAMBDA done :
      [workingGrid |-> done.workingGrid,
       newAutoSolved |-> done.newAutoSolved \cup {key \in autoSolved : key \notin userCells},
       changed |-> done.changed]))

----------------------------------------------------------------------------
(* Bounds and inputs *)

\* Number of cells the user edits in solver mode.
NumEditCells == 4

\* The user types the values 1..MaxEditVal.
MaxEditVal == 2

\* solve is called on grids with at most this many empty cells.
MaxSolveEmpty == 4

\* Seeds of the random draws of generateComplete and of generatePuzzle.
MaxRowSeed == 2

MaxPosSeed == 5

\* Longest move history of a challenge game.
MaxMoves == 2

\* Number of callers of the guarded sync operations.
NumCallers == 2

\* A complete valid grid; its row 0 is the row of the is_valid_move scenario.
Base ==
  LET rows == << <<5, 3, 4, 6, 7, 8, 9, 1, 2>>,
                 <<6, 7, 2, 1, 9, 5, 3, 4, 8>>,
                 <<1, 9, 8, 3, 4, 2, 5, 6, 7>>,
                 <<8, 5, 9, 7, 6, 1, 4, 2, 3>>,
                 <<4, 2, 6, 8, 5, 3, 7, 9, 1>>,
                 <<7, 1, 3, 9, 2, 4, 8, 5, 6>>,
                 <<9, 6, 1, 5, 3, 7, 2, 8, 4>>,
                 <<2, 8, 7, 4, 1, 9, 6, 3, 5>>,
                 <<3, 4, 5, 2, 8, 6, 1, 7, 9>> >>
  IN  [r \in Idx |-> [c \in Idx |-> rows[r + 1][c + 1]]]

\* Cells 1..4 are the corners of a rectangle over two boxes that holds 1 and
\* 3 crosswise; cells 4..7 the corners of one over four boxes that holds 1
\* and 5 crosswise.
InputCellSeq ==
  << <<3, 5>>, <<3, 8>>, <<4, 5>>, <<4, 8>>, <<4, 4>>, <<7, 4>>, <<7, 8>>, <<0, 0>> >>

EditCells == {InputCellSeq[i] : i \in 1..NumEditCells}

EditVals == 1..MaxEditVal

Blank(g, cells) ==
  [r \in Idx |-> [c \in Idx |-> IF <<r, c>> \in cells THEN Null ELSE g[r][c]]]

FirstRowOnly(g) == Blank(g, {p \in Cells : p[1] # 0})

EmptyCells(g) == {p \in Cells : g[p[1]][p[2]] = Null}

\* The grids solver mode is opened with.
InitialGrids == {Blank(Base, cells) : cells \in SUBSET EditCells}

\* The grids handed to the SudokuUtils functions: Base with the corners of
\* one of the two rectangles blanked and at most one cell overwritten, the
\* empty grid, the grid of the is_valid_move scenario, the two grids with
\* special conflicts and the grid with only its last row filled.
RectA == {InputCellSeq[i] : i \in 1..4}

RectB == {InputCellSeq[i] : i \in 4..7}

OverwriteVals == {1, 2, 3}

\* Grids with conflicts of special shape: a value three times in a row and
\* in a box, and a value twice in a box but in different rows and columns.
TripleGrid == SetCell(SetCell(Base, 0, 1, 5), 0, 2, 5)

BoxOnlyGrid == SetCell(SetCell(createEmptyGrid, 0, 0, 5), 1, 1, 5)

\* Only the last row filled: the cells of rows 6 and 7 have fewer candidates
\* than the cells before them.
LastRowOnly == Blank(Base, {p \in Cells : p[1] # 8})

UtilGrids ==
  LET blanked == {Blank(Base, cells) : cells \in (SUBSET RectA) \cup (SUBSET RectB)}
  IN  blanked
      \cup {SetCell(g, p[1], p[2], v) : g \in blanked, p \in RectA \cup RectB, v \in OverwriteVals}
      \cup {createEmptyGrid, FirstRowOnly(Base), TripleGrid, BoxOnlyGrid, LastRowOnly}

\* The cells isValidMove is asked about.
MoveCells == RectA \cup RectB \cup {<<1, 0>>}

----------------------------------------------------------------------------
(* Solver mode component *)

NoRun == <<>>

SolverInit ==
  /\ userGrid = createEmptyGrid
  /\ autoSolvedCells = {}
  /\ effectPending = TRUE
  /\ authored = {}
  /\ lastRun = NoRun

\* The component is mounted with initialGrid = g.
LoadInitialGrid(g) ==
  /\ ~effectPending
  /\ userGrid' = copyGrid(g)
  /\ autoSolvedCells' = {}
  /\ effectPending' = TRUE
  /\ authored' = Cells \ EmptyCells(g)
  /\ lastRun' = NoRun

\* UpdateAutoSolvedCells that sets the state at the end of every run.
UpdateAutoSolvedCellsAlwaysSets ==
  /\ effectPending
  /\ lastRun' = [input |-> userGrid]
  /\ UNCHANGED authored
  /\ \E run \in {computeAutoSolved(userGrid, autoSolvedCells)} :
         /\ autoSolvedCells' = run.newAutoSolved
         /\ userGrid' = IF run.changed THEN run.workingGrid ELSE userGrid
         /\ effectPending' = TRUE

\* The effect that runs updateAutoSolvedCells after a render in which
\* userGrid or autoSolvedCells changed.
UpdateAutoSolvedCells ==
  /\ effectPending
  /\ lastRun' = [input |-> userGrid]
  /\ UNCHANGED authored
  /\ \E run \in {computeAutoSolved(userGrid, autoSolvedCells)} :
         IF run.changed \/ Cardinality(run.newAutoSolved) # Cardinality(autoSolvedCells)
         THEN /\ autoSolvedCells' = run.newAutoSolved
              /\ userGrid' = IF run.changed THEN run.workingGrid ELSE userGrid
              /\ effectPending' = TRUE
         ELSE /\ UNCHANGED <<autoSolvedCells, userGrid>>
              /\ effectPending' = FALSE

\* handleCellChange without the test for auto-solved cells.
handleCellChangeNoGuard(row, col, value) ==
  /\ ~effectPending
  /\ userGrid' = SetCell(copyGrid(userGrid), row, col, value)
  /\ autoSolvedCells' = IF value = Null THEN {} ELSE autoSolvedCells
  /\ effectPending' = TRUE
  /\ authored' = IF value = Null THEN authored \ {<<row, col>>}
                                  ELSE authored \cup {<<row, col>>}
  /\ lastRun' = NoRun

\* handleCellChange whose test for auto-solved cells lets a clear through.
handleCellChangeGuardsEntriesOnly(row, col, value) ==
  /\ ~effectPending
  /\ IF Key(row, col) \in autoSolvedCells /\ value # Null
     THEN UNCHANGED <<userGrid, autoSolvedCells, effectPending, authored>>
     ELSE /\ userGrid' = SetCell(copyGrid(userGrid), row, col, value)
          /\ autoSolvedCells' = IF value = Null THEN {} ELSE autoSolvedCells
          /\ effectPending' = TRUE
          /\ authored' = IF value = Null THEN authored \ {<<row, col>>}
                                          ELSE authored \cup {<<row, col>>}
  /\ lastRun' = NoRun

handleCellChange(row, col, value) ==
  /\ ~effectPending
  /\ IF Key(row, col) \in autoSolvedCells
     THEN UNCHANGED <<userGrid, autoSolvedCells, effectPending, authored>>
     ELSE /\ userGrid' = SetCell(copyGrid(userGrid), row, col, value)
          /\ autoSolvedCells' = IF value = Null THEN {} ELSE autoSolvedCells
          /\ effectPending' = TRUE
          /\ authored' = IF value = Null THEN authored \ {<<row, col>>}
                                          ELSE authored \cup {<<row, col>>}
  /\ lastRun' = NoRun

clearGrid ==
  /\ ~effectPending
  /\ userGrid' = createEmptyGrid
  /\ autoSolvedCells' = {}
  /\ effectPending' = TRUE
  /\ authored' = {}
  /\ lastRun' = NoRun

\* The "solve completely" handler of solver mode.
solverModeSolve ==
  /\ ~effectPending
  /\ Cardinality(EmptyCells(userGrid)) <= MaxSolveEmpty
  /\ LET solution == solve(userGrid)
     IN  IF solution # NoGrid
         THEN /\ userGrid' = solution
              /\ autoSolvedCells' = autoSolvedCells \cup
                    {Key(p[1], p[2]) : p \in
                       {q \in Cells : userGrid[q[1]][q[2]] = Null /\ solution[q[1]][q[2]] # Null}}
              /\ effectPending' = TRUE
         ELSE UNCHANGED <<userGrid, autoSolvedCells, effectPending>>
  /\ lastRun' = NoRun
  /\ UNCHANGED authored

----------------------------------------------------------------------------
(* A caller of the SudokuUtils functions *)

NoCall == [op |-> "none"]

UtilInit ==
  /\ grid \in UtilGrids
  /\ call = NoCall

CallSolve ==
  /\ call = NoCall
  /\ search = NoSearch
  /\ Cardinality(EmptyCells(grid)) <= MaxSolveEmpty
  /\ search' = StartSearch(grid)
  /\ call' = [op |-> "solving"]
  /\ UNCHANGED grid

\* The caller's grid g after a step of the search from s to s2: the rows
\* that gridCopy shares with it hold what gridCopy holds.
CallerGridAfter(g, s, s2) ==
  [r \in Idx |-> IF r \in s.shared THEN s2.gridCopy[r] ELSE g[r]]

SolveStep ==
  /\ call.op = "solving"
  /\ SearchStep
  /\ grid' = CallerGridAfter(grid, search, search')
  /\ UNCHANGED call

\* solve returns; arg is the content of the grid when solve was called.
SolveReturn ==
  /\ call.op = "solving"
  /\ search.pc = "returned"
  /\ call' = [op |-> "solve", arg |-> search.input, result |-> search.result,
              shared |-> search.shared]
  /\ search' = NoSearch
  /\ UNCHANGED grid

\* The caller writes v into a cell of the grid that solve returned.
ModifyResult(row, col, v) ==
  /\ call.op = "solve"
  /\ call.result # NoGrid
  /\ call' = [call EXCEPT !.op = "solveModified", !.result = SetCell(@, row, col, v)]
  /\ grid' = IF row \in call.shared THEN SetCell(grid, row, col, v) ELSE grid
  /\ UNCHANGED search

\* The caller passes the grid that solve returned to solve again.
CallSolveOnResult ==
  /\ call.op = "solve"
  /\ call.result # NoGrid
  /\ search = NoSearch
  /\ search' = StartSearch(call.result)
  /\ call' = [op |-> "solvingAgain", arg |-> call.arg, first |-> call.result]
  /\ UNCHANGED grid

SolveAgainStep ==
  /\ call.op = "solvingAgain"
  /\ SearchStep
  /\ call' = [call EXCEPT !.first = CallerGridAfter(@, search, search')]
  /\ UNCHANGED grid

SolveAgainReturn ==
  /\ call.op = "solvingAgain"
  /\ search.pc = "returned"
  /\ call' = [op |-> "solveAgain", arg |-> call.arg, first |-> call.first,
              result |-> search.result]
  /\ search' = NoSearch
  /\ UNCHANGED grid

CallGetHint ==
  /\ call = NoCall
  /\ UNCHANGED search
  /\ call' = [op |-> "getHint", result |-> getHint(grid)]
  /\ UNCHANGED grid

CallFindConflicts ==
  /\ call = NoCall
  /\ UNCHANGED search
  /\ call' = [op |-> "findConflicts", result |-> findConflicts(grid)]
  /\ UNCHANGED grid

CallIsValid ==
  /\ call = NoCall
  /\ UNCHANGED search
  /\ call' = [op |-> "isValid", arg |-> grid, result |-> isValid(grid)]
  /\ UNCHANGED grid

CallIsComplete ==
  /\ call = NoCall
  /\ UNCHANGED search
  /\ call' = [op |-> "isComplete", arg |-> grid, result |-> isComplete(grid)]
  /\ UNCHANGED grid

CallIsValidMove(row, col, num) ==
  /\ call = NoCall
  /\ UNCHANGED search
  /\ call' = [op |-> "isValidMove", row |-> row, col |-> col, num |-> num,
              result |-> isValidMove(grid, row, col, num)]
  /\ UNCHANGED grid

----------------------------------------------------------------------------
(* A caller of generatePuzzle *)

GenInit == gen = [pc |-> "start"]

\* generateComplete up to the call of solve (lines 221-232).
GenerateCompleteStart(seed) ==
  /\ gen.pc = "start"
  /\ LET firstRow == shuffle([k \in 1..9 |-> k], seed)
         g == [createEmptyGrid EXCEPT ![0] = [c \in Idx |-> firstRow[c + 1]]]
     IN  search' = StartSearch(g)
  /\ gen' = [pc |-> "solving"]

GenerateCompleteSolve ==
  /\ gen.pc = "solving"
  /\ SearchStep
  /\ UNCHANGED gen

\* generateComplete, line 233, and its return to generatePuzzle (line 193).
GenerateCompleteReturn ==
  /\ gen.pc = "solving"
  /\ search.pc = "returned"
  /\ gen' = [pc |-> "removing",
             solution |-> IF search.result # NoGrid THEN search.result
                          ELSE createEmptyGrid]
  /\ search' = NoSearch

\* generatePuzzle, lines 194-217: the returned pair.
RemoveCells(difficulty, seed) ==
  /\ gen.pc = "removing"
  /\ gen' = [pc |-> "returned", difficulty |-> difficulty,
             result |-> removeCells(gen.solution, difficulty, seed)]
  /\ UNCHANGED search

----------------------------------------------------------------------------
(* Challenge mode component *)

\* The grid generateComplete returns when the shuffle of the first row gives
\* 2 3 4 5 6 7 8 9 1 (the draw of seed 0): solve fills the remaining rows
\* with the smallest values that fit.
GeneratedSolution ==
  LET rows == << <<2, 3, 4, 5, 6, 7, 8, 9, 1>>,
                 <<1, 5, 6, 2, 8, 9, 3, 4, 7>>,
                 <<7, 8, 9, 1, 3, 4, 2, 5, 6>>,
                 <<3, 1, 2, 4, 5, 6, 7, 8, 9>>,
                 <<4, 6, 5, 7, 9, 8, 1, 2, 3>>,
                 <<8, 9, 7, 3, 1, 2, 4, 6, 5>>,
                 <<5, 2, 1, 6, 4, 3, 9, 7, 8>>,
                 <<6, 4, 8, 9, 7, 1, 5, 3, 2>>,
                 <<9, 7, 3, 8, 2, 5, 6, 1, 4>> >>
  IN  [r \in Idx |-> [c \in Idx |-> rows[r + 1][c + 1]]]

\* The cells the player types into and the values typed: the solution holds
\* 1 at (3, 1) and 8 at (3, 7).
PlayCells == {<<3, 1>>, <<3, 7>>}

PlayVals == {Null, 1, 8}

\* The "hard" puzzle generatePuzzle makes of GeneratedSolution with the
\* position draw of seed 0 (50 cells blanked).
GeneratedPuzzles == {removeCells(GeneratedSolution, "hard", 0).puzzle}

\* Puzzles of GeneratedSolution that leave only cells of PlayCells open: the
\* handlers do not depend on the number of open cells, and a game is
\* completed within a short history.
ShortPuzzles == {Blank(GeneratedSolution, cells) : cells \in (SUBSET PlayCells) \ {{}}}

NoGame == <<>>

\* The SudokuGame object of startNewGame and of the mount effect (lines
\* 158-167, 208-217); id, difficulty, times and hintsUsed are left out.
newGame(puzzle, solution) ==
  [initialGrid |-> copyGrid(puzzle),
   currentGrid |-> copyGrid(puzzle),
   solutionGrid |-> solution,
   isCompleted |-> FALSE,
   moves |-> <<>>]

ChallengeInit ==
  /\ currentGame = NoGame
  /\ currentMoveIndex = -1
  /\ gameStarted = FALSE
  /\ isPaused = FALSE
  /\ savedGame = NoGame

\* The page is left or reloaded: the component state is gone, the stored
\* game stays.
Unmount ==
  /\ currentGame # NoGame
  /\ currentGame' = NoGame
  /\ currentMoveIndex' = -1
  /\ gameStarted' = FALSE
  /\ isPaused' = FALSE
  /\ UNCHANGED savedGame

\* The branch of the mount effect and of continueGame that takes over a
\* game object (lines 124-137, 145-154).
loadGame(game) ==
  /\ currentGame' = game
  /\ currentMoveIndex' = Len(game.moves) - 1
  /\ gameStarted' = (Len(game.moves) > 0)
  /\ isPaused' = TRUE
  /\ savedGame' = game

\* The mount effect without gameToLoad: the stored game if it is not
\* completed, a new game otherwise.
MountEffect(puzzles) ==
  /\ currentGame = NoGame
  /\ IF savedGame # NoGame /\ ~savedGame.isCompleted
     THEN loadGame(savedGame)
     ELSE \E puzzle \in puzzles :
             LET game == newGame(puzzle, GeneratedSolution)
             IN  /\ currentGame' = game
                 /\ currentMoveIndex' = -1
                 /\ gameStarted' = FALSE
                 /\ isPaused' = FALSE
                 /\ savedGame' = game

\* "continue" in the history list (offered for games that are not
\* completed), followed by the mount effect with gameToLoad.
continueGame ==
  /\ currentGame = NoGame
  /\ savedGame # NoGame /\ ~savedGame.isCompleted
  /\ loadGame(savedGame)

\* "restart" in the history list, followed by the mount effect with
\* gameToLoad.
historyRestartGame ==
  /\ currentGame = NoGame
  /\ savedGame # NoGame /\ ~savedGame.isCompleted
  /\ loadGame([savedGame EXCEPT !.currentGrid = copyGrid(savedGame.initialGrid),
                                !.isCompleted = FALSE,
                                !.moves = <<>>])

startNewGame(puzzles) ==
  /\ currentGame # NoGame
  /\ \E puzzle \in puzzles :
        LET game == newGame(puzzle, GeneratedSolution)
        IN  /\ currentGame' = game
            /\ savedGame' = game
  /\ currentMoveIndex' = -1
  /\ gameStarted' = FALSE
  /\ isPaused' = FALSE

\* makeMove; a history of MaxMoves moves takes no further move.
makeMove(row, col, value) ==
  /\ currentGame # NoGame
  /\ ~currentGame.isCompleted
  /\ currentGame.currentGrid[row][col] # value
  /\ currentMoveIndex + 1 < MaxMoves
  /\ LET previousValue == currentGame.currentGrid[row][col]
         move == [row |-> row, col |-> col, value |-> value,
                  previousValue |-> previousValue]
         newGrid == SetCell(copyGrid(currentGame.currentGrid), row, col, value)
         newMoves == Append(SubSeq(currentGame.moves, 1, currentMoveIndex + 1), move)
         updatedGame == [currentGame EXCEPT
                           !.currentGrid = newGrid,
                           !.moves = newMoves,
                           !.isCompleted = IF isComplete(newGrid) THEN TRUE ELSE @]
     IN  /\ currentGame' = updatedGame
         /\ currentMoveIndex' = Len(newMoves) - 1
         /\ savedGame' = updatedGame
  /\ gameStarted' = TRUE
  /\ isPaused' = IF gameStarted THEN isPaused ELSE FALSE

\* A value or a clear reaches makeMove from the grid without the test of
\* isInitialCell.
handleCellInputAnyCell(row, col, value) ==
  /\ currentGame # NoGame
  /\ ~isPaused
  /\ makeMove(row, col, value)

\* Grid input (handleKeyDown, or handleCellClick/handleCellLongPress and
\* handleWheelSelect): refused for given cells and while paused.
handleCellInput(row, col, value) ==
  /\ currentGame # NoGame
  /\ ~isPaused
  /\ currentGame.initialGrid[row][col] = Null
  /\ makeMove(row, col, value)

\* ChallengeMode.getHint: the hint of SudokuUtils.getHint is played as a move.
challengeGetHint ==
  /\ currentGame # NoGame
  /\ ~currentGame.isCompleted
  /\ LET hint == getHint(currentGame.currentGrid)
     IN  /\ hint # NoHint
         /\ makeMove(hint.row, hint.col, hint.value)

\* The game after undo at index `index`, and after redo.
undoGame(game, index) ==
  LET move == game.moves[index + 1]
  IN  [game EXCEPT !.currentGrid =
         SetCell(copyGrid(game.currentGrid), move.row, move.col, move.previousValue)]

redoGame(game, index) ==
  LET move == game.moves[index + 2]
  IN  [game EXCEPT !.currentGrid =
         SetCell(copyGrid(game.currentGrid), move.row, move.col, move.value)]

RECURSIVE replayMoves(_, _, _, _)

\* The loop of getReplayGrid from i on: moves[i], moves[i+1], ... are
\* written into g while i < replayIndex and i < moves.length.
replayMoves(g, moves, i, replayIndex) ==
  IF i < replayIndex /\ i < Len(moves)
  THEN replayMoves(SetCell(g, moves[i + 1].row, moves[i + 1].col, moves[i + 1].value),
                   moves, i + 1, replayIndex)
  ELSE g

\* HistoryMode.getReplayGrid for a selected game.
getReplayGrid(game, replayIndex) ==
  replayMoves(copyGrid(game.initialGrid), game.moves, 0, replayIndex)

undo ==
  /\ currentGame # NoGame
  /\ currentMoveIndex >= 0
  /\ currentGame' = undoGame(currentGame, currentMoveIndex)
  /\ currentMoveIndex' = currentMoveIndex - 1
  /\ savedGame' = undoGame(currentGame, currentMoveIndex)
  /\ UNCHANGED <<gameStarted, isPaused>>

redo ==
  /\ currentGame # NoGame
  /\ currentMoveIndex < Len(currentGame.moves) - 1
  /\ currentGame' = redoGame(currentGame, currentMoveIndex)
  /\ currentMoveIndex' = currentMoveIndex + 1
  /\ savedGame' = redoGame(currentGame, currentMoveIndex)
  /\ UNCHANGED <<gameStarted, isPaused>>

restartGame ==
  /\ currentGame # NoGame
  /\ LET restartedGame == [currentGame EXCEPT
                             !.currentGrid = copyGrid(currentGame.initialGrid),
                             !.moves = <<>>,
                             !.isCompleted = FALSE]
     IN  /\ currentGame' = restartedGame
         /\ savedGame' = restartedGame
  /\ currentMoveIndex' = -1
  /\ gameStarted' = FALSE
  /\ isPaused' = FALSE

\* The pause button (enabled once the game has started, until it is
\* completed); pausing stores the game.
togglePause ==
  /\ currentGame # NoGame
  /\ gameStarted /\ ~currentGame.isCompleted
  /\ isPaused' = ~isPaused
  /\ savedGame' = IF ~isPaused THEN currentGame ELSE savedGame
  /\ UNCHANGED <<currentGame, currentMoveIndex, gameStarted>>

\* The page is hidden (visibilitychange).
handleVisibilityChange ==
  /\ currentGame # NoGame
  /\ isPaused' = TRUE
  /\ UNCHANGED <<currentGame, currentMoveIndex, gameStarted, savedGame>>

\* "continue" on the pause overlay of the grid.
onContinue ==
  /\ currentGame # NoGame
  /\ isPaused
  /\ isPaused' = FALSE
  /\ UNCHANGED <<currentGame, currentMoveIndex, gameStarted, savedGame>>

----------------------------------------------------------------------------
(* CloudStorageManager: the guarded sync operations *)

Callers == 1..NumCallers

NoAuth == "null"

Auth == "uuid and password"

SyncOps == {"autoSync", "downloadOnLoad", "checkCloudUpdates", "uploadLocalData"}

\* The calls made: localData is TRUE for data that is not falsy.
SyncRequests ==
  {[op |-> "autoSync", localData |-> d, forceDownload |-> f] : d \in BOOLEAN, f \in BOOLEAN}
    \cup {[op |-> op, localData |-> FALSE, forceDownload |-> FALSE] :
            op \in {"downloadOnLoad", "checkCloudUpdates"}}
    \cup {[op |-> "uploadLocalData", localData |-> d, forceDownload |-> FALSE] :
            d \in BOOLEAN}

IdleCall == [pc |-> "idle"]

\* The calls that are past the guard and have not returned.
InFlight == {c \in Callers : syncCalls[c].pc \notin {"idle", "returned"}}

CloudIdle ==
  /\ syncInProgress = FALSE
  /\ storage = NoAuth
  /\ lastUploadRecent = FALSE
  /\ syncCalls = [c \in Callers |-> IdleCall]

\* The manager after its construction: loadAuth has found credentials or
\* has not.
CloudInit ==
  /\ syncInProgress = FALSE
  /\ storage \in {NoAuth, Auth}
  /\ lastUploadRecent = FALSE
  /\ syncCalls = [c \in Callers |-> IdleCall]

\* The guard that tests only the credentials.
guardBlocksWithoutFlag(op) == op = "checkCloudUpdates" /\ storage = NoAuth

\* The test at the head of each guarded operation.
guardBlocks(op) ==
  IF op = "checkCloudUpdates" THEN storage = NoAuth \/ syncInProgress
  ELSE syncInProgress

\* downloadData up to its first await: without credentials it returns a
\* failure, otherwise the request is sent.
downloadDataStart(rec) ==
  IF storage = NoAuth
  THEN [rec EXCEPT !.pc = "downloadDone", !.inner = FALSE]
  ELSE [rec EXCEPT !.pc = "fetchDownload", !.requests = @ + 1]

\* uploadData up to its first await: without credentials or within the
\* cooldown it returns a failure, otherwise the request is sent.
uploadDataStart(rec) ==
  IF storage = NoAuth \/ lastUploadRecent
  THEN [rec EXCEPT !.pc = "uploadDone", !.inner = FALSE]
  ELSE [rec EXCEPT !.pc = "fetchUpload", !.requests = @ + 1]

returnedCall(arrivedDuring, requests, success) ==
  [pc |-> "returned", arrivedDuring |-> arrivedDuring, requests |-> requests,
   result |-> [success |-> success]]

\* A guarded operation is called and runs up to its first await, or returns
\* the failure result of the guard.
CallSync(c, req) ==
  /\ syncCalls[c].pc = "idle"
  /\ IF guardBlocks(req.op)
     THEN /\ syncCalls' = [syncCalls EXCEPT ![c] = returnedCall(InFlight # {}, 0, FALSE)]
          /\ UNCHANGED syncInProgress
     ELSE LET rec == [pc |-> "guard", op |-> req.op, localData |-> req.localData,
                      forceDownload |-> req.forceDownload,
                      arrivedDuring |-> InFlight # {}, requests |-> 0, inner |-> FALSE]
              download == \/ req.op \in {"downloadOnLoad", "checkCloudUpdates"}
                          \/ req.op = "autoSync" /\ (req.forceDownload \/ ~req.localData)
          IN  /\ syncInProgress' = TRUE
              /\ syncCalls' = [syncCalls EXCEPT ![c] =
                                 IF download THEN downloadDataStart(rec)
                                 ELSE uploadDataStart(rec)]
  /\ UNCHANGED <<storage, lastUploadRecent>>

FetchOutcomes == {"code 200", "other code", "network error"}

\* The request of downloadData or uploadData is answered (or fails, which
\* the function catches): the function returns its result.
FetchResponds(c, outcome) ==
  /\ syncCalls[c].pc \in {"fetchDownload", "fetchUpload"}
  /\ syncCalls' = [syncCalls EXCEPT ![c] =
        [@ EXCEPT !.pc = IF @ = "fetchDownload" THEN "downloadDone" ELSE "uploadDone",
                  !.inner = (outcome = "code 200")]]
  /\ lastUploadRecent' =
        IF syncCalls[c].pc = "fetchUpload" /\ outcome = "code 200" THEN TRUE
        ELSE lastUploadRecent
  /\ UNCHANGED <<syncInProgress, storage>>

\* The guarded operation resumes after its await and runs to its next await
\* or to its return; `throws` is an exception in its own code
\* (calculateDataHash in downloadOnLoad), which its catch block handles.
Resume(c, throws) ==
  /\ syncCalls[c].pc \in {"downloadDone", "uploadDone"}
  /\ throws => syncCalls[c].op = "downloadOnLoad" /\ syncCalls[c].inner
  /\ LET rec == syncCalls[c]
         again == rec.op = "autoSync" /\ rec.pc = "downloadDone" /\ ~rec.inner /\ rec.localData
     IN  IF again
         THEN /\ syncCalls' = [syncCalls EXCEPT ![c] = uploadDataStart(rec)]
              /\ UNCHANGED syncInProgress
         ELSE /\ syncCalls' = [syncCalls EXCEPT ![c] =
                    returnedCall(rec.arrivedDuring, rec.requests, rec.inner /\ ~throws)]
              /\ syncInProgress' = FALSE
  /\ UNCHANGED <<storage, lastUploadRecent>>

\* The caller takes the result; it may call again.
TakeResult(c) ==
  /\ syncCalls[c].pc = "returned"
  /\ syncCalls' = [syncCalls EXCEPT ![c] = IdleCall]
  /\ UNCHANGED <<syncInProgress, storage, lastUploadRecent>>

saveAuth ==
  /\ storage' = Auth
  /\ UNCHANGED <<syncInProgress, lastUploadRecent, syncCalls>>

clearAuth ==
  /\ storage' = NoAuth
  /\ UNCHANGED <<syncInProgress, lastUploadRecent, syncCalls>>

\* UPLOAD_COOLDOWN has passed since the last successful upload.
CooldownElapses ==
  /\ lastUploadRecent
  /\ lastUploadRecent' = FALSE
  /\ UNCHANGED <<syncInProgress, storage, syncCalls>>

----------------------------------------------------------------------------
(* Specifications *)

SolverIdle ==
  /\ userGrid = createEmptyGrid /\ autoSolvedCells = {} /\ effectPending = FALSE
  /\ authored = {} /\ lastRun = NoRun

UtilIdle == grid = createEmptyGrid /\ call = NoCall

GenIdle == gen = [pc |-> "start"]

Init ==
  /\ SolverInit /\ UtilIdle /\ GenIdle /\ search = NoSearch
  /\ ChallengeInit /\ CloudIdle

Next ==
  /\ \/ \E g \in InitialGrids : LoadInitialGrid(g)
     \/ UpdateAutoSolvedCells
     \/ \E p \in EditCells : \E v \in EditVals \cup {Null} : handleCellChange(p[1], p[2], v)
     \/ clearGrid
     \/ solverModeSolve
  /\ UNCHANGED <<grid, call, gen, search, challengeVars, cloudVars>>

Spec == Init /\ [][Next]_vars

\* React runs a scheduled effect: a pending run of updateAutoSolvedCells
\* takes place.
SolverFairSpec ==
  /\ Spec
  /\ WF_<<userGrid, autoSolvedCells, effectPending, authored, lastRun>>(UpdateAutoSolvedCells)

\* Solver mode in which the user only opens grids, enters values and clears
\* cells: the "solve completely" and "clear grid" buttons are left alone.
EditNext ==
  /\ \/ \E g \in InitialGrids : LoadInitialGrid(g)
     \/ UpdateAutoSolvedCells
     \/ \E p \in EditCells : \E v \in EditVals \cup {Null} : handleCellChange(p[1], p[2], v)
  /\ UNCHANGED <<grid, call, gen, search, challengeVars, cloudVars>>

EditSpec == Init /\ [][EditNext]_vars

UtilSpecInit ==
  /\ UtilInit /\ SolverIdle /\ GenIdle /\ search = NoSearch
  /\ ChallengeInit /\ CloudIdle

UtilNext ==
  /\ \/ CallSolve
     \/ SolveStep
     \/ SolveReturn
     \/ \E p \in RectA : ModifyResult(p[1], p[2], Null)
     \/ CallSolveOnResult
     \/ SolveAgainStep
     \/ SolveAgainReturn
     \/ CallGetHint
     \/ CallFindConflicts
     \/ CallIsValid
     \/ CallIsComplete
     \/ \E p \in MoveCells : \E num \in Nums : CallIsValidMove(p[1], p[2], num)
  /\ UNCHANGED <<userGrid, autoSolvedCells, effectPending, authored, lastRun, gen,
                 challengeVars, cloudVars>>

UtilSpec == UtilSpecInit /\ [][UtilNext]_vars

\* The caller that only calls solve.  solve is a synchronous function: a
\* search that has started goes on until it returns.
SolveNext ==
  /\ \/ CallSolve
     \/ SolveStep
     \/ SolveReturn
     \/ \E p \in RectA : ModifyResult(p[1], p[2], Null)
     \/ CallSolveOnResult
     \/ SolveAgainStep
     \/ SolveAgainReturn
  /\ UNCHANGED <<userGrid, autoSolvedCells, effectPending, authored, lastRun, gen,
                 challengeVars, cloudVars>>

SolveFairSpec ==
  /\ UtilSpecInit
  /\ [][SolveNext]_vars
  /\ WF_<<grid, call, search>>(SolveStep)
  /\ WF_<<grid, call, search>>(SolveAgainStep)

GenSpecInit ==
  /\ GenInit /\ SolverIdle /\ UtilIdle /\ search = NoSearch
  /\ ChallengeInit /\ CloudIdle

GenNext ==
  /\ \/ \E seed \in 0..MaxRowSeed : GenerateCompleteStart(seed)
     \/ GenerateCompleteSolve
     \/ GenerateCompleteReturn
     \/ \E d \in Difficulties : \E seed \in 0..MaxPosSeed : RemoveCells(d, seed)
  /\ UNCHANGED <<userGrid, autoSolvedCells, effectPending, authored, lastRun, grid, call,
                 challengeVars, cloudVars>>

GenSpec == GenSpecInit /\ [][GenNext]_vars

ChallengeSpecInit ==
  /\ ChallengeInit /\ SolverIdle /\ UtilIdle /\ GenIdle /\ search = NoSearch
  /\ CloudIdle

ChallengeNext ==
  /\ \/ Unmount
     \/ MountEffect(ShortPuzzles)
     \/ continueGame
     \/ historyRestartGame
     \/ startNewGame(ShortPuzzles)
     \/ \E p \in PlayCells : \E v \in PlayVals : handleCellInput(p[1], p[2], v)
     \/ challengeGetHint
     \/ undo
     \/ redo
     \/ restartGame
     \/ togglePause
     \/ handleVisibilityChange
     \/ onContinue
  /\ UNCHANGED <<userGrid, autoSolvedCells, effectPending, authored, lastRun,
                 grid, call, gen, search, cloudVars>>

ChallengeSpec == ChallengeSpecInit /\ [][ChallengeNext]_vars

\* Challenge mode on the puzzle of the generator.
GeneratedGameNext ==
  /\ \/ Unmount
     \/ MountEffect(GeneratedPuzzles)
     \/ continueGame
     \/ historyRestartGame
     \/ startNewGame(GeneratedPuzzles)
     \/ \E p \in PlayCells : \E v \in PlayVals : handleCellInput(p[1], p[2], v)
     \/ challengeGetHint
     \/ undo
     \/ redo
     \/ restartGame
     \/ togglePause
     \/ handleVisibilityChange
     \/ onContinue
  /\ UNCHANGED <<userGrid, autoSolvedCells, effectPending, authored, lastRun,
                 grid, call, gen, search, cloudVars>>

GeneratedGameSpec == ChallengeSpecInit /\ [][GeneratedGameNext]_vars

CloudSpecInit ==
  /\ CloudInit /\ SolverIdle /\ UtilIdle /\ GenIdle /\ search = NoSearch
  /\ ChallengeInit

CloudNext ==
  /\ \/ \E c \in Callers : \E req \in SyncRequests : CallSync(c, req)
     \/ \E c \in Callers : \E outcome \in FetchOutcomes : FetchResponds(c, outcome)
     \/ \E c \in Callers : \E throws \in BOOLEAN : Resume(c, throws)
     \/ \E c \in Callers : TakeResult(c)
     \/ saveAuth
     \/ clearAuth
     \/ CooldownElapses
  /\ UNCHANGED <<userGrid, autoSolvedCells, effectPending, authored, lastRun,
                 grid, call, gen, search, challengeVars>>

CloudSpec == CloudSpecInit /\ [][CloudNext]_vars

----------------------------------------------------------------------------
(* Vocabulary of the properties *)

\* The values isValidMove accepts at a cell.
Candidates(g, p) == {v \in Nums : isValidMove(g, p[1], p[2], v)}

\* Row-major position of a cell.
Pos(p) == p[1] * 9 + p[2]

SameBox(p, q) == (p[1] \div 3 = q[1] \div 3) /\ (p[2] \div 3 = q[2] \div 3)

\* v is held by a cell other than p in the row, the column or the box of p.
OccursElsewhere(g, p, v) ==
  \E q \in Cells :
     /\ q # p
     /\ q[1] = p[1] \/ q[2] = p[2] \/ SameBox(p, q)
     /\ g[q[1]][q[2]] = v

\* g with its empty cells filled as f says.
Fill(g, f) ==
  [r \in Idx |-> [c \in Idx |-> IF g[r][c] = Null THEN f[<<r, c>>] ELSE g[r][c]]]

\* Some way of filling the empty cells of g gives a complete valid grid.
\* (Fillings that repeat a value of the cell's row are skipped unbuilt.)
HasCompletion(g) ==
  \E f \in [EmptyCells(g) -> Nums] :
     /\ \A p \in EmptyCells(g) : \A c \in Idx : g[p[1]][c] # f[p]
     /\ isComplete(Fill(g, f))

Extends(h, g) == \A p \in Cells : g[p[1]][p[2]] # Null => h[p[1]][p[2]] = g[p[1]][p[2]]

----------------------------------------------------------------------------
(* Properties of solve, isValidMove and getHint (UtilSpec) *)

\* C1: for a grid with at least one valid completion, solve returns a grid
\* (not null) that keeps every filled cell of the input and is complete.
C1_SolveCompletesSolvable ==
  (call.op = "solve" /\ HasCompletion(grid)) =>
     /\ call.result # NoGrid
     /\ Extends(call.result, grid)
     /\ isComplete(call.result)

\* solve has returned for a grid with four empty cells that has a completion.
C1_Witness ==
  /\ call.op = "solve"
  /\ Cardinality(EmptyCells(grid)) = 4
  /\ HasCompletion(grid)
  /\ call.result # NoGrid

\* C2: for a grid with no valid completion (a duplicate among the filled
\* cells included, also when no cell is empty) solve returns null.
C2_SolveNullWhenUnsolvable ==
  (call.op = "solve" /\ ~HasCompletion(grid)) => call.result = NoGrid

\* C3: isValidMove(g, r, c, v) is false iff v occurs in row r, column c or
\* the box of (r, c) at a position other than (r, c); the value stored at
\* (r, c) does not affect the result.
C3_IsValidMoveIffNoOtherOccurrence ==
  call.op = "isValidMove" =>
     /\ (call.result = FALSE) <=> OccursElsewhere(grid, <<call.row, call.col>>, call.num)
     /\ \A w \in Nums \cup {Null} :
           isValidMove(SetCell(grid, call.row, call.col, w), call.row, call.col, call.num)
             = call.result

\* The scenario of the specification: with only row 0 = 5 3 4 6 7 8 9 1 2
\* filled, 5 is refused at (1, 0).
C3_Witness ==
  /\ grid = FirstRowOnly(Base)
  /\ call = [op |-> "isValidMove", row |-> 1, col |-> 0, num |-> 5, result |-> FALSE]

\* C9 as stated: getHint on the all-empty grid returns no hint.
C9_EmptyGridNoHint ==
  (call.op = "getHint" /\ grid = createEmptyGrid) => call.result = NoHint

\* C9 as amended: getHint on the all-empty grid returns the fallback hint of
\* the first cell: cell (0, 0), value 1, with the reason that names 9
\* possibilities.
C9_EmptyGridFallbackHint ==
  (call.op = "getHint" /\ grid = createEmptyGrid) =>
     call.result = [row |-> 0, col |-> 0, value |-> 1,
                    reason |-> <<"This cell has only", 9, "possibilities:",
                                 <<1, 2, 3, 4, 5, 6, 7, 8, 9>> >>]

C9_Witness == call.op = "getHint" /\ grid = createEmptyGrid

\* The empty cells with exactly one candidate.
SingleCells(g) == {p \in EmptyCells(g) : Cardinality(Candidates(g, p)) = 1}

\* C10: when some empty cell has exactly one candidate, getHint returns the
\* first such cell in row-major order with that candidate and the "only
\* number" reason.
C10_HintFirstSingle ==
  (call.op = "getHint" /\ SingleCells(grid) # {}) =>
     LET p == CHOOSE q \in SingleCells(grid) : \A q2 \in SingleCells(grid) : Pos(q) <= Pos(q2)
     IN  /\ call.result # NoHint
         /\ call.result.row = p[1]
         /\ call.result.col = p[2]
         /\ {call.result.value} = Candidates(grid, p)
         /\ call.result.reason = OnlyReason

\* getHint has returned for a grid whose first empty cell has two candidates
\* and in which two later cells have one.
C10_Witness ==
  /\ call.op = "getHint"
  /\ Cardinality(SingleCells(grid)) >= 2
  /\ \E p \in EmptyCells(grid) :
        /\ Cardinality(Candidates(grid, p)) = 2
        /\ \A q \in SingleCells(grid) : Pos(p) < Pos(q)

\* The grid one cell short of completion.
C10_WitnessOneShort ==
  /\ call.op = "getHint"
  /\ Cardinality(EmptyCells(grid)) = 1
  /\ SingleCells(grid) # {}

\* C11: getHint returns null exactly when no empty cell has a candidate (a
\* grid without empty cells included); a hint it returns names an empty cell
\* and a value that isValidMove accepts there.
C11_HintNullIffNoCandidates ==
  call.op = "getHint" =>
     /\ (call.result = NoHint) <=>
           (\A p \in EmptyCells(grid) : Candidates(grid, p) = {})
     /\ call.result # NoHint =>
           /\ grid[call.result.row][call.result.col] = Null
           /\ isValidMove(grid, call.result.row, call.result.col, call.result.value)

\* getHint has returned null for a grid that has an empty cell (without
\* candidates) next to filled cells that each accept their own value.
C11_Witness ==
  /\ call.op = "getHint"
  /\ call.result = NoHint
  /\ EmptyCells(grid) # {}
  /\ \E p \in Cells \ EmptyCells(grid) : Candidates(grid, p) # {}

\* The empty cells with at least one candidate.
OpenCells(g) == {p \in EmptyCells(g) : Candidates(g, p) # {}}

\* C21: when no empty cell has exactly one candidate but some empty cell has
\* one or more, getHint returns the empty cell with the fewest candidates
\* among those with at least one, the first in row-major order on ties, and
\* the smallest candidate of that cell as the value.
C21_FallbackHintFewestCandidates ==
  (call.op = "getHint" /\ SingleCells(grid) = {} /\ OpenCells(grid) # {}) =>
     /\ call.result # NoHint
     /\ LET p == <<call.result.row, call.result.col>>
        IN  /\ p \in OpenCells(grid)
            /\ \A q \in OpenCells(grid) :
                  \/ Cardinality(Candidates(grid, p)) < Cardinality(Candidates(grid, q))
                  \/ /\ Cardinality(Candidates(grid, p)) = Cardinality(Candidates(grid, q))
                     /\ Pos(p) <= Pos(q)
            /\ call.result.value \in Candidates(grid, p)
            /\ \A v \in Candidates(grid, p) : call.result.value <= v

\* getHint has returned a fallback hint for a cell that comes after cells
\* with more candidates and before cells with as many.
C21_Witness ==
  /\ call.op = "getHint"
  /\ SingleCells(grid) = {}
  /\ call.result # NoHint
  /\ LET p == <<call.result.row, call.result.col>>
     IN  /\ \E q \in OpenCells(grid) :
              /\ Pos(q) < Pos(p)
              /\ Cardinality(Candidates(grid, q)) > Cardinality(Candidates(grid, p))
         /\ \E q \in OpenCells(grid) :
              /\ Pos(q) > Pos(p)
              /\ Cardinality(Candidates(grid, q)) = Cardinality(Candidates(grid, p))

\* C14: solve never changes the caller's grid, whether it returns a grid or
\* null: during the call and after it the grid holds what it held when solve
\* was called, also after the caller has modified the grid that solve returned.
C14_SolveLeavesInputAlone ==
  /\ call.op = "solving" => grid = search.input
  /\ call.op \in {"solve", "solveModified"} => grid = call.arg

\* solve has filled empty cells of its copy and returned it, and the caller
\* has blanked a cell of the returned grid that is filled in its own grid.
C14_Witness ==
  /\ call.op = "solveModified"
  /\ EmptyCells(call.arg) # {}
  /\ \E p \in Cells : call.result[p[1]][p[2]] = Null /\ call.arg[p[1]][p[2]] # Null

\* solve has returned null after a search that placed and reset values.
C14_WitnessNull ==
  /\ call.op = "solve"
  /\ call.result = NoGrid
  /\ \E p \in EmptyCells(call.arg) : Candidates(call.arg, p) # {}

\* C15: when solve(g) is a grid, solve applied to that grid returns a grid
\* too, equal to it cell by cell.
C15_SolveIdempotent ==
  call.op = "solveAgain" =>
     /\ call.result # NoGrid
     /\ \A p \in Cells : call.result[p[1]][p[2]] = call.first[p[1]][p[2]]

\* solve has returned for the grid it returned for a grid with four empty
\* cells.
C15_Witness ==
  /\ call.op = "solveAgain"
  /\ Cardinality(EmptyCells(call.arg)) = 4
  /\ call.result # NoGrid

\* C16 (SolveFairSpec): the search of solve terminates for every input grid.
\* It returns a grid without empty cells, or null, and then every value it
\* placed has been reset: gridCopy holds what the input holds.
C16_SearchTerminates ==
  /\ (call.op = "solving") ~> (search.pc = "returned")
  /\ [](search.pc = "returned" =>
          \/ search.result # NoGrid /\ EmptyCells(search.result) = {}
          \/ search.result = NoGrid /\ search.gridCopy = search.input)

\* The search has returned null for a grid whose first empty cell has a
\* candidate: it placed a value there, failed deeper and reset the cell.
C16_Witness ==
  /\ call.op = "solving"
  /\ search.pc = "returned"
  /\ search.result = NoGrid
  /\ LET empty == findEmpty(search.input)
     IN  empty # <<>> /\ Candidates(search.input, empty) # {}

\* The ways of filling the empty cells of g that give a complete valid grid.
Completions(g) ==
  {f \in [EmptyCells(g) -> Nums] :
     /\ \A p \in EmptyCells(g) : \A c \in Idx : g[p[1]][c] # f[p]
     /\ isComplete(Fill(g, f))}

\* h is at most f in the lexicographic order of the values of `cells` read
\* in row-major order (h a grid, f a filling).
LexLeq(h, f, cells) ==
  \/ \A p \in cells : h[p[1]][p[2]] = f[p]
  \/ \E p \in cells :
        /\ h[p[1]][p[2]] < f[p]
        /\ \A q \in cells : Pos(q) < Pos(p) => h[q[1]][q[2]] = f[q]

\* C20: for a conflict-free grid with a valid completion, solve returns the
\* valid completion whose values in the originally empty cells, in row-major
\* order, are lexicographically smallest among all valid completions.
C20_SolveReturnsLexSmallest ==
  (call.op = "solve" /\ isValid(call.arg) /\ Completions(call.arg) # {}) =>
     /\ call.result # NoGrid
     /\ Extends(call.result, call.arg)
     /\ isComplete(call.result)
     /\ \A f \in Completions(call.arg) : LexLeq(call.result, f, EmptyCells(call.arg))

\* solve has returned for a conflict-free grid with two valid completions.
C20_Witness ==
  /\ call.op = "solve"
  /\ isValid(call.arg)
  /\ Cardinality(Completions(call.arg)) >= 2
  /\ call.result # NoGrid

----------------------------------------------------------------------------
(* Properties of findConflicts, isValid and isComplete (UtilSpec) *)

\* The 27 scopes as (kind, index), and the cells of each; a cell (row, col)
\* lies in the box with index (row / 3) * 3 + col / 3.
ScopeIds == {"row", "column", "box"} \X Idx

CellsOfScope(id) ==
  CASE id[1] = "row" -> {p \in Cells : p[1] = id[2]}
    [] id[1] = "column" -> {p \in Cells : p[2] = id[2]}
    [] id[1] = "box" -> {p \in Cells : (p[1] \div 3) * 3 + p[2] \div 3 = id[2]}

Holding(g, id, v) == {p \in CellsOfScope(id) : g[p[1]][p[2]] = v}

\* The pairs (scope, value) with the value at least twice in the scope.
DuplicatedPairs(g) ==
  {pr \in ScopeIds \X Nums : Cardinality(Holding(g, pr[1], pr[2])) >= 2}

SeqRange(sq) == {sq[i] : i \in 1..Len(sq)}

\* C12: findConflicts returns one entry per pair (scope, value) with the
\* value at least twice in the scope, carrying the scope kind, the scope
\* index and all the coordinates of the scope that hold the value (each
\* once), and no other entry.
C12_OneConflictPerDuplicatedPair ==
  call.op = "findConflicts" =>
     /\ Len(call.result) = Cardinality(DuplicatedPairs(grid))
     /\ \A i \in 1..Len(call.result) :
           Len(call.result[i].cells) = Cardinality(SeqRange(call.result[i].cells))
     /\ {[type |-> e.type, index |-> e.index, cells |-> SeqRange(e.cells)] :
            e \in SeqRange(call.result)}
          = {[type |-> pr[1][1], index |-> pr[1][2], cells |-> Holding(grid, pr[1], pr[2])] :
               pr \in DuplicatedPairs(grid)}

\* findConflicts has returned for the grid with 5 three times in row 0 and
\* in box 0 and twice in column 1.
C12_Witness ==
  /\ call.op = "findConflicts"
  /\ grid = TripleGrid
  /\ Len(call.result) >= 3
  /\ \E i \in 1..Len(call.result) : Len(call.result[i].cells) = 3

\* C17: isComplete(grid) is true iff each of the 81 cells is filled and
\* isValid(grid) is true.
C17_CompleteIffFilledAndValid ==
  call.op = "isComplete" =>
     (call.result <=> (\A p \in Cells : grid[p[1]][p[2]] \in Nums) /\ isValid(grid))

\* isComplete has returned false for a grid without empty cells.
C17_Witness ==
  /\ call.op = "isComplete"
  /\ EmptyCells(grid) = {}
  /\ call.result = FALSE

\* Two different cells of one row, one column or one box.
SameScope(p, q) == p # q /\ (p[1] = q[1] \/ p[2] = q[2] \/ SameBox(p, q))

\* C18: isValid(grid) is true iff no row, column or box holds the same
\* non-empty value twice, for complete and partial grids; the all-empty grid
\* is valid.
C18_ValidIffNoDuplicate ==
  call.op = "isValid" =>
     /\ call.result <=>
           (\A p \in Cells : \A q \in Cells :
               (SameScope(p, q) /\ grid[p[1]][p[2]] # Null)
                  => grid[p[1]][p[2]] # grid[q[1]][q[2]])
     /\ grid = createEmptyGrid => call.result

\* isValid has returned false for a partial grid in which the only two
\* equal values share a box but neither a row nor a column.
C18_Witness ==
  /\ call.op = "isValid"
  /\ grid = BoxOnlyGrid
  /\ call.result = FALSE

----------------------------------------------------------------------------
(* Properties of generatePuzzle (GenSpec) *)

\* C4: the solution of generatePuzzle is complete and valid: solve does not
\* fail on the grid whose row 0 is a permutation of 1..9, so the all-empty
\* fallback grid is never the solution.
C4_GeneratedSolutionComplete ==
  /\ (gen.pc = "solving" /\ search.pc = "returned") => search.result # NoGrid
  /\ gen.pc = "removing" =>
        isComplete(gen.solution) /\ gen.solution # createEmptyGrid
  /\ gen.pc = "returned" =>
        isComplete(gen.result.solution) /\ gen.result.solution # createEmptyGrid

\* generateComplete has returned a grid whose row 0 is not in ascending order.
C4_Witness ==
  /\ gen.pc = "removing"
  /\ \E c \in 0..7 : gen.solution[0][c] > gen.solution[0][c + 1]

\* The number of cells blanked per difficulty, as the specification lists it.
BlankedCount(d) ==
  CASE d = "easy" -> 35 [] d = "medium" -> 45 [] d = "hard" -> 50
    [] d = "expert" -> 55 [] d = "master" -> 60 [] d = "extreme" -> 65

\* C5: the puzzle is the solution with exactly N(d) cells blanked: it has
\* 81 - N(d) filled cells, each equal to the solution's cell, and the
\* returned solution has no blank cell.
C5_PuzzleIsSolutionMinusN ==
  gen.pc = "returned" =>
     LET puzzle == gen.result.puzzle
         solution == gen.result.solution
     IN  /\ Cardinality(Cells \ EmptyCells(puzzle)) = 81 - BlankedCount(gen.difficulty)
         /\ Cardinality(EmptyCells(puzzle)) = BlankedCount(gen.difficulty)
         /\ Extends(solution, puzzle)
         /\ EmptyCells(solution) = {}

\* generatePuzzle has returned an "extreme" puzzle with blanks in both the
\* first and the last row.
C5_Witness ==
  /\ gen.pc = "returned"
  /\ gen.difficulty = "extreme"
  /\ \E c \in Idx : gen.result.puzzle[0][c] = Null
  /\ \E c \in Idx : gen.result.puzzle[8][c] = Null

\* C13: findConflicts returns the empty list for the solution and for the
\* puzzle that generatePuzzle returns.
C13_GeneratedGridsConflictFree ==
  gen.pc = "returned" =>
     /\ findConflicts(gen.result.solution) = <<>>
     /\ findConflicts(gen.result.puzzle) = <<>>

\* generatePuzzle has returned an "easy" puzzle, in which every row, column
\* and box keeps at least two filled cells.
C13_Witness ==
  /\ gen.pc = "returned"
  /\ gen.difficulty = "easy"
  /\ \A id \in ScopeIds :
        Cardinality(CellsOfScope(id) \ EmptyCells(gen.result.puzzle)) >= 2

----------------------------------------------------------------------------
(* Properties of solver mode (Spec) *)

\* The grid that holds only the values the user supplied.
AuthoredGrid == Blank(userGrid, Cells \ authored)

\* C6 (EditSpec): after any sequence of cell entries and cell clears, once
\* propagation has settled, the grid and the deduced set are what propagation
\* from scratch on the user-authored values alone produces.
C6_SettledStateIsFromScratch ==
  ~effectPending =>
     LET fresh == computeAutoSolved(AuthoredGrid, {})
     IN  /\ userGrid = fresh.workingGrid
         /\ autoSolvedCells = fresh.newAutoSolved

\* C7: a cell whose current value was supplied by the user is never a member
\* of autoSolvedCells.
C7_UserCellsNeverAutoSolved ==
  \A p \in authored : Key(p[1], p[2]) \notin autoSolvedCells

\* Deduced cells next to a value the user typed over another one.
C7_Witness ==
  /\ autoSolvedCells # {}
  /\ \E p \in authored \cap EditCells :
        userGrid[p[1]][p[2]] # Null /\ userGrid[p[1]][p[2]] # Base[p[1]][p[2]]

\* The cells the last run of updateAutoSolvedCells filled.
FilledByLastRun ==
  {p \in Cells : lastRun.input[p[1]][p[2]] = Null /\ userGrid[p[1]][p[2]] # Null}

\* C8: when updateAutoSolvedCells has finished, no empty cell of the grid
\* has exactly one value accepted by isValidMove, and every cell the run
\* filled is in the deduced set.
C8_PropagationReachesFixedPoint ==
  lastRun # NoRun =>
     /\ \A p \in EmptyCells(userGrid) : Cardinality(Candidates(userGrid, p)) # 1
     /\ \A p \in FilledByLastRun : Key(p[1], p[2]) \in autoSolvedCells

\* A run that filled three cells, the first of which had two candidates
\* when the run started.
C8_Witness ==
  /\ lastRun # NoRun
  /\ Cardinality(FilledByLastRun) = 3
  /\ \E p \in FilledByLastRun :
        /\ Cardinality(Candidates(lastRun.input, p)) = 2
        /\ \A q \in FilledByLastRun : Pos(p) <= Pos(q)

\* C19: a change request of the user (a value or a clear) for a cell that is
\* in autoSolvedCells leaves the grid and autoSolvedCells as they are.
C19_AutoSolvedCellsRejectEdits ==
  [][\A p \in EditCells : \A v \in EditVals \cup {Null} :
        (Key(p[1], p[2]) \in autoSolvedCells /\ handleCellChange(p[1], p[2], v))
           => UNCHANGED <<userGrid, autoSolvedCells>>]_vars

\* The state after a refused request: propagation has settled with deduced
\* cells among the cells the user edits, and the last step was a handler
\* that scheduled no effect.
C19_Witness ==
  /\ ~effectPending
  /\ lastRun = NoRun
  /\ autoSolvedCells \cap EditCells # {}

\* The complete valid grids that agree with Base outside the cells the user
\* edits: every valid completion of a grid that holds the values of Base
\* outside those cells is one of them.
NearBase(f) ==
  [r \in Idx |-> [c \in Idx |-> IF <<r, c>> \in EditCells THEN f[<<r, c>>] ELSE Base[r][c]]]

SolutionsNearBase ==
  {NearBase(f) : f \in
     {h \in [EditCells -> Nums] :
        /\ \A p \in EditCells : isValidMove(Blank(Base, EditCells), p[1], p[2], h[p])
        /\ isComplete(NearBase(h))}}

\* C23: when the input of updateAutoSolvedCells agrees on its filled cells
\* with a valid complete grid S, the grid the run produces agrees with S as
\* well: every value the run filled is the value of S at that cell.
C23_PropagationSound ==
  lastRun # NoRun =>
     \A S \in SolutionsNearBase :
        Extends(S, lastRun.input) => Extends(S, userGrid)

\* A run has filled two or more cells of an input that has a valid
\* completion.
C23_Witness ==
  /\ lastRun # NoRun
  /\ Cardinality(FilledByLastRun) >= 2
  /\ \E S \in SolutionsNearBase : Extends(S, lastRun.input)

\* C24: updateAutoSolvedCells changes no cell that is filled in its input,
\* and when findConflicts is empty for the input it is empty for the grid
\* the run produces.
C24_PropagationKeepsFilledCells ==
  lastRun # NoRun =>
     /\ Extends(userGrid, lastRun.input)
     /\ findConflicts(lastRun.input) = <<>> => findConflicts(userGrid) = <<>>

\* A run has filled cells of a conflict-free input, next to a cell that
\* was filled in the input.
C24_Witness ==
  /\ lastRun # NoRun
  /\ FilledByLastRun # {}
  /\ findConflicts(lastRun.input) = <<>>
  /\ \E p \in EditCells : lastRun.input[p[1]][p[2]] # Null

\* C25 (SolverFairSpec): the propagation effect stabilises: whenever a run
\* of updateAutoSolvedCells is pending, after finitely many runs a run makes
\* no state update and no run is pending.
C25_EffectStabilises == effectPending ~> ~effectPending

\* The effect has come to rest, with deduced cells, on a grid in which the
\* user had replaced a value.
C25_Witness ==
  /\ ~effectPending
  /\ lastRun # NoRun
  /\ autoSolvedCells # {}
  /\ \E p \in EditCells \ autoSolvedCells :
        userGrid[p[1]][p[2]] \notin {Null, Base[p[1]][p[2]]}

----------------------------------------------------------------------------
(* Properties of challenge mode (ChallengeSpec, GeneratedGameSpec) *)

\* C22 (GeneratedGameSpec): whenever the current grid agrees with
\* solutionGrid on every filled cell and has an empty cell, the value the
\* hint action writes equals the value of solutionGrid at the hinted cell,
\* so the grid agrees with solutionGrid after the hint as well.
C22_HintWritesSolutionValue ==
  [][(/\ currentGame # NoGame
      /\ EmptyCells(currentGame.currentGrid) # {}
      /\ Extends(currentGame.solutionGrid, currentGame.currentGrid)
      /\ challengeGetHint)
       => /\ \A p \in Cells :
                currentGame'.currentGrid[p[1]][p[2]] # currentGame.currentGrid[p[1]][p[2]]
                  => currentGame'.currentGrid[p[1]][p[2]] = currentGame.solutionGrid[p[1]][p[2]]
          /\ Extends(currentGame'.solutionGrid, currentGame'.currentGrid)]_vars

\* C26 (ChallengeSpec): in every state reachable by moves, hints, undo,
\* redo, restart and loading a saved game, currentMoveIndex lies between -1
\* and moves.length - 1 and currentGrid is initialGrid with
\* moves[0..currentMoveIndex] applied in order, the grid the history replay
\* reconstructs.
C26_GridIsReplayOfHistory ==
  currentGame # NoGame =>
     /\ currentMoveIndex \in -1..(Len(currentGame.moves) - 1)
     /\ currentGame.currentGrid = getReplayGrid(currentGame, currentMoveIndex + 1)

\* C27 (ChallengeSpec): in every state reachable by moves, hints, undo, redo
\* and restart, isCompleted is true only if isComplete(currentGrid) holds.
C27_CompletedOnlyIfComplete ==
  (currentGame # NoGame /\ currentGame.isCompleted) =>
     isComplete(currentGame.currentGrid)

RECURSIVE undoAll(_, _)

\* The game after undo has been pressed until it is disabled.
undoAll(game, index) ==
  IF index < 0 THEN game ELSE undoAll(undoGame(game, index), index - 1)

\* C28 (ChallengeSpec): from any state with currentMoveIndex >= 0, undo
\* followed by redo yields the same currentGrid (and the same
\* currentMoveIndex: undo subtracts one, redo adds one), and undoing every
\* applied move returns currentGrid to initialGrid.
C28_UndoRedoInverse ==
  (currentGame # NoGame /\ currentMoveIndex \in 0..(Len(currentGame.moves) - 1)) =>
     /\ redoGame(undoGame(currentGame, currentMoveIndex), currentMoveIndex - 1).currentGrid
          = currentGame.currentGrid
     /\ undoAll(currentGame, currentMoveIndex).currentGrid = currentGame.initialGrid

\* C29 (ChallengeSpec): given cells are never changed during play: each
\* cell that is non-empty in initialGrid holds the same value in
\* currentGrid.
C29_GivenCellsUnchanged ==
  currentGame # NoGame =>
     \A p \in Cells :
        currentGame.initialGrid[p[1]][p[2]] # Null
          => currentGame.currentGrid[p[1]][p[2]] = currentGame.initialGrid[p[1]][p[2]]

\* A game in which a cell of PlayCells is given, after two moves of which
\* the second has been undone: the open cell holds a value the solution
\* does not hold there.
C29_Witness ==
  /\ currentGame # NoGame
  /\ \E p \in PlayCells : currentGame.initialGrid[p[1]][p[2]] # Null
  /\ Len(currentGame.moves) = 2
  /\ currentMoveIndex = 0
  /\ \E p \in PlayCells :
        currentGame.currentGrid[p[1]][p[2]] \notin {Null, currentGame.solutionGrid[p[1]][p[2]]}

----------------------------------------------------------------------------
(* Properties of the guarded sync operations (CloudSpec) *)

\* C30: for every interleaving of guarded sync operations started
\* concurrently, at most one is past its syncInProgress guard at any time; a
\* call that arrives while one is in flight returns a failure result and
\* sends no request; syncInProgress is false whenever no guarded operation
\* is in flight, whether the last one succeeded, failed or threw.
C30_GuardedSyncExclusive ==
  /\ Cardinality(InFlight) <= 1
  /\ \A c \in Callers :
        syncCalls[c].pc # "idle" /\ syncCalls[c].arrivedDuring =>
           /\ syncCalls[c].pc = "returned"
           /\ syncCalls[c].result.success = FALSE
           /\ syncCalls[c].requests = 0
  /\ InFlight = {} => syncInProgress = FALSE

\* A call that arrived during another call has been refused, while the
\* other call, an autoSync whose download failed, waits for the answer to
\* its upload request.
C30_Witness ==
  \E c \in Callers : \E d \in Callers :
     /\ syncCalls[c].pc = "returned"
     /\ syncCalls[c].arrivedDuring
     /\ syncCalls[d].pc = "fetchUpload"
     /\ syncCalls[d].op = "autoSync"
     /\ syncCalls[d].requests = 2

====
